---- MODULE Spec2Model ----
(***************************************************************************)
(* Model of the tree-path choice map (TPChoiceMap) over a subsplit DAG and *)
(* of the NNI operation algebra (NNIOperation).                            *)
(*                                                                         *)
(* Ids (EdgeId, NodeId) are natural numbers, NoId is the reserved          *)
(* sentinel.  The choice sequence edge_choice_vector_ is a function on     *)
(* 0 .. size-1.  Stacks are sequences whose top is the last element.       *)
(***************************************************************************)
EXTENDS Integers, Sequences, FiniteSets, TLC

VARIABLES
    dag,                  \* which DAG of the family the choice map decorates
    edge_choice_vector_,  \* TPChoiceMap::edge_choice_vector_
    pc,                   \* position of the caller / of the running extraction
    overwritten,          \* whether a caller has overwritten a choice with an arbitrary id
    selection_valid,      \* <<result>> of the last SelectionIsValid, <<>> if none
    focal_edge_id,        \* ExtractTreeMask: cursor of the rootward pass
    tree_mask,            \* ExtractTreeMask: the mask under construction
    rootward_stack,       \* ExtractTreeMask: std::stack rootward_stack
    leafward_stack,       \* ExtractTreeMask: std::stack leafward_stack
    mask_valid,           \* <<result>> of the last TreeMaskIsValid, <<>> if none
    tree_mask_ext,        \* ExtractTopology: the expanded tree mask
    visited_left,         \* ExtractTopology: unordered_map visited_left
    visited_right,        \* ExtractTopology: unordered_map visited_right
    nodes,                \* ExtractTopology: unordered_map nodes (built objects)
    node_id_counter,      \* ExtractTopology: next synthetic node id
    current_node_id,      \* ExtractTopology: the cursor
    pre_grow_vector,      \* the choice sequence before the first GrowEdgeData, and the calls
    pre_nni,              \* NNI algebra: first operand
    post_nni,             \* NNI algebra: second operand
    nni_pc,               \* NNI algebra: which operation has been applied
    nni_result            \* NNI algebra: <<value>> the operation returned, <<>> if none

cmVars == <<dag, edge_choice_vector_, overwritten, selection_valid, pre_grow_vector>>
maskVars == <<focal_edge_id, tree_mask, rootward_stack, leafward_stack, mask_valid>>
topoVars == <<tree_mask_ext, visited_left, visited_right, nodes, node_id_counter,
              current_node_id>>
nniVars == <<pre_nni, post_nni, nni_pc, nni_result>>
vars == <<pc, cmVars, maskVars, topoVars, nniVars>>

(***************************************************************************)
(* Bounds of the model.                                                    *)
(***************************************************************************)
\* DAGs 1 .. MaxDag of the family below are explored.
MaxDag == 3
\* A caller overwrite may name an id up to MaxBeyond past the last valid edge id.
MaxBeyond == 1
\* GrowEdgeData is called at most MaxGrow times on a map and grows it by at
\* most MaxGrow slots in total.
MaxGrow == 3
\* The pending-work stacks of ExtractTreeMask are explored up to this length
\* (on a map whose choices form a cycle they grow without limit).
MaxStack == 6
\* Size of the taxon universe of the NNI operations.
MaxTaxa == 4

\* The reserved sentinel for "no id" (the largest value of the id type).
NoId == 2147483647

(***************************************************************************)
(* Small helpers.                                                          *)
(***************************************************************************)
Min(S) == CHOOSE x \in S : \A y \in S : x <= y

RECURSIVE SetToSortedSeq(_)
SetToSortedSeq(S) ==
    IF S = {} THEN <<>> ELSE <<Min(S)>> \o SetToSortedSeq(S \ {Min(S)})

Reverse(s) == [i \in 1..Len(s) |-> s[Len(s) + 1 - i]]

(***************************************************************************)
(* The subsplit DAG (external collaborator).  A node is a subsplit         *)
(* <<left clade, right clade>> over taxa 0 .. n-1; leaves are the taxa     *)
(* (node id = taxon id), the DAG root is the last node and has every taxon *)
(* in its left clade.  An edge is <<parent node, child node>>; its clade   *)
(* is the clade of the parent that the child subdivides.                   *)
(***************************************************************************)
LeafSubsplit(t) == <<{t}, {}>>

\* DAG 1: the single tree ((A,B),(C,D)).
\* DAG 2: taxa A..D, rootsplits D|ABC and BCD|A; node C|B has a left parent
\*        (BC|A) and a right parent (D|BC).
\* DAG 3: taxa A..D, rootsplit BCD|A whose clade BCD has the two children
\*        D|BC and CD|B.
\* DAG 4: taxa A,B,C with rootsplits BC|A and C|AB.
DagSubsplits(d) ==
    CASE d = 1 -> << LeafSubsplit(0), LeafSubsplit(1), LeafSubsplit(2), LeafSubsplit(3),
                     <<{1}, {0}>>, <<{3}, {2}>>, <<{2, 3}, {0, 1}>>,
                     <<{0, 1, 2, 3}, {}>> >>
      [] d = 2 -> << LeafSubsplit(0), LeafSubsplit(1), LeafSubsplit(2), LeafSubsplit(3),
                     <<{2}, {1}>>, <<{1, 2}, {0}>>, <<{3}, {1, 2}>>,
                     <<{3}, {0, 1, 2}>>, <<{1, 2, 3}, {0}>>,
                     <<{0, 1, 2, 3}, {}>> >>
      [] d = 3 -> << LeafSubsplit(0), LeafSubsplit(1), LeafSubsplit(2), LeafSubsplit(3),
                     <<{2}, {1}>>, <<{3}, {2}>>, <<{3}, {1, 2}>>, <<{2, 3}, {1}>>,
                     <<{1, 2, 3}, {0}>>,
                     <<{0, 1, 2, 3}, {}>> >>
      [] OTHER -> << LeafSubsplit(0), LeafSubsplit(1), LeafSubsplit(2),
                     <<{2}, {1}>>, <<{1}, {0}>>, <<{1, 2}, {0}>>, <<{2}, {0, 1}>>,
                     <<{0, 1, 2}, {}>> >>

DagEdgePairs(d) ==
    CASE d = 1 -> << <<7, 6>>, <<6, 5>>, <<6, 4>>, <<4, 1>>, <<4, 0>>, <<5, 3>>,
                     <<5, 2>> >>
      [] d = 2 -> << <<9, 7>>, <<9, 8>>, <<7, 3>>, <<7, 5>>, <<8, 6>>, <<8, 0>>,
                     <<5, 4>>, <<5, 0>>, <<6, 3>>, <<6, 4>>, <<4, 2>>, <<4, 1>> >>
      [] d = 3 -> << <<9, 8>>, <<8, 6>>, <<8, 7>>, <<8, 0>>, <<6, 3>>, <<6, 4>>,
                     <<7, 5>>, <<7, 1>>, <<4, 2>>, <<4, 1>>, <<5, 3>>, <<5, 2>> >>
      [] OTHER -> << <<7, 5>>, <<7, 6>>, <<5, 3>>, <<5, 0>>, <<3, 2>>, <<3, 1>>,
                     <<6, 2>>, <<6, 4>>, <<4, 1>>, <<4, 0>> >>

DagIds == 1..MaxDag

NodeCount(d) == Len(DagSubsplits(d))
NodeIds(d) == 0..(NodeCount(d) - 1)
GetDAGRootNodeId(d) == NodeCount(d) - 1
TaxonCount(d) == Cardinality(DagSubsplits(d)[NodeCount(d)][1])
EdgeCountWithLeafSubsplits(d) == Len(DagEdgePairs(d))
\* EdgeIdxRange().second: one past the last valid edge id.
EdgeIdxRangeSecond(d) == EdgeCountWithLeafSubsplits(d)
EdgeIds(d) == 0..(EdgeCountWithLeafSubsplits(d) - 1)

NodeTaxa(d, n) == DagSubsplits(d)[n + 1][1] \cup DagSubsplits(d)[n + 1][2]

\* GetDAGEdge(edge_id): parent, child and the parent's clade the child sits in.
GetDAGEdge(d, e) ==
    LET p == DagEdgePairs(d)[e + 1][1]
        c == DagEdgePairs(d)[e + 1][2]
    IN  [parent |-> p, child |-> c,
         clade |-> IF NodeTaxa(d, c) = DagSubsplits(d)[p + 1][1] THEN "Left" ELSE "Right"]

IsNodeRoot(d, n) == n = GetDAGRootNodeId(d)
IsNodeLeaf(d, n) == n < TaxonCount(d)
IsEdgeRoot(d, e) == IsNodeRoot(d, GetDAGEdge(d, e).parent)
IsEdgeLeaf(d, e) == IsNodeLeaf(d, GetDAGEdge(d, e).child)

Opposite(clade) == IF clade = "Left" THEN "Right" ELSE "Left"

\* GetNeighbors(direction, clade): the SizeVector of neighbouring node ids.
\* Leafward: the children in the given clade of the node.  Rootward: the
\* parents that hold the node in their given clade.
GetNeighbors(d, n, direction, clade) ==
    SetToSortedSeq(
        IF direction = "Leafward"
        THEN {GetDAGEdge(d, e).child :
                e \in {x \in EdgeIds(d) : /\ GetDAGEdge(d, x).parent = n
                                          /\ GetDAGEdge(d, x).clade = clade}}
        ELSE {GetDAGEdge(d, e).parent :
                e \in {x \in EdgeIds(d) : /\ GetDAGEdge(d, x).child = n
                                          /\ GetDAGEdge(d, x).clade = clade}})

GetEdgeIdx(d, p, c) == CHOOSE e \in EdgeIds(d) : DagEdgePairs(d)[e + 1] = <<p, c>>

\* The family is made of well-formed subsplit DAGs.
DagIsWellFormed(d) ==
    /\ \A e \in EdgeIds(d) :
         LET p == DagEdgePairs(d)[e + 1][1]
             c == DagEdgePairs(d)[e + 1][2]
         IN  /\ p \in NodeIds(d) /\ c \in NodeIds(d)
             /\ NodeTaxa(d, c) \in {DagSubsplits(d)[p + 1][1], DagSubsplits(d)[p + 1][2]}
             /\ NodeTaxa(d, c) # {}
             /\ \A f \in EdgeIds(d) : DagEdgePairs(d)[f + 1] = <<p, c>> => f = e
    /\ \A n \in NodeIds(d) :
         /\ DagSubsplits(d)[n + 1][1] \cap DagSubsplits(d)[n + 1][2] = {}
         /\ IsNodeLeaf(d, n) <=> DagSubsplits(d)[n + 1] = LeafSubsplit(n)
         /\ ~IsNodeRoot(d, n) =>
              (GetNeighbors(d, n, "Rootward", "Left") # <<>>
               \/ GetNeighbors(d, n, "Rootward", "Right") # <<>>)
         /\ ~IsNodeLeaf(d, n) =>
              /\ GetNeighbors(d, n, "Leafward", "Left") # <<>>
              /\ IsNodeRoot(d, n) \/ GetNeighbors(d, n, "Leafward", "Right") # <<>>

(***************************************************************************)
(* The choice map.                                                         *)
(***************************************************************************)
AdjacentEdge == {"Parent", "Sister", "LeftChild", "RightChild"}

\* A default-constructed EdgeChoice: every field NoId.
EmptyEdgeChoice ==
    [parent_edge_id |-> NoId, sister_edge_id |-> NoId,
     left_child_edge_id |-> NoId, right_child_edge_id |-> NoId]

GetEdgeChoice(choice, edge_choice_type) ==
    CASE edge_choice_type = "Parent" -> choice.parent_edge_id
      [] edge_choice_type = "Sister" -> choice.sister_edge_id
      [] edge_choice_type = "LeftChild" -> choice.left_child_edge_id
      [] OTHER -> choice.right_child_edge_id

SetEdgeChoice(choice, edge_choice_type, id) ==
    CASE edge_choice_type = "Parent" -> [choice EXCEPT !.parent_edge_id = id]
      [] edge_choice_type = "Sister" -> [choice EXCEPT !.sister_edge_id = id]
      [] edge_choice_type = "LeftChild" -> [choice EXCEPT !.left_child_edge_id = id]
      [] OTHER -> [choice EXCEPT !.right_child_edge_id = id]

Size(vec) == Cardinality(DOMAIN vec)

(***************************************************************************)
(* SelectFirstEdge(edge_id): the default selection of one edge.            *)
(***************************************************************************)
\* SelectFirstEdge(edge_id) with the sister assignment left out.
SelectFirstEdgeChoiceNoSister(d, edge_id) ==
    LET edge == GetDAGEdge(d, edge_id)
        parent_node == edge.parent
        child_node == edge.child
        left_parents == GetNeighbors(d, parent_node, "Rootward", "Left")
        right_parents == GetNeighbors(d, parent_node, "Rootward", "Right")
        left_children == GetNeighbors(d, child_node, "Leafward", "Left")
        right_children == GetNeighbors(d, child_node, "Leafward", "Right")
    IN  [parent_edge_id |->
             IF right_parents # <<>> THEN GetEdgeIdx(d, right_parents[1], parent_node)
             ELSE IF left_parents # <<>> THEN GetEdgeIdx(d, left_parents[1], parent_node)
             ELSE NoId,
         sister_edge_id |-> NoId,
         left_child_edge_id |->
             IF left_children # <<>> THEN GetEdgeIdx(d, child_node, left_children[1])
             ELSE NoId,
         right_child_edge_id |->
             IF right_children # <<>> THEN GetEdgeIdx(d, child_node, right_children[1])
             ELSE NoId]

SelectFirstEdgeChoice(d, edge_id) ==
    LET edge == GetDAGEdge(d, edge_id)
        focal_clade == edge.clade
        parent_node == edge.parent
        child_node == edge.child
        left_parents == GetNeighbors(d, parent_node, "Rootward", "Left")
        right_parents == GetNeighbors(d, parent_node, "Rootward", "Right")
        sisters == GetNeighbors(d, parent_node, "Leafward", Opposite(focal_clade))
        left_children == GetNeighbors(d, child_node, "Leafward", "Left")
        right_children == GetNeighbors(d, child_node, "Leafward", "Right")
        \* ResetEdgeChoice(edge_id)
        c0 == EmptyEdgeChoice
        c1 == IF left_parents # <<>>
              THEN [c0 EXCEPT !.parent_edge_id = GetEdgeIdx(d, left_parents[1], parent_node)]
              ELSE c0
        c2 == IF right_parents # <<>>
              THEN [c1 EXCEPT !.parent_edge_id = GetEdgeIdx(d, right_parents[1], parent_node)]
              ELSE c1
        c3 == IF sisters # <<>>
              THEN [c2 EXCEPT !.sister_edge_id = GetEdgeIdx(d, parent_node, sisters[1])]
              ELSE c2
        c4 == IF left_children # <<>>
              THEN [c3 EXCEPT !.left_child_edge_id =
                                  GetEdgeIdx(d, child_node, left_children[1])]
              ELSE c3
    IN  IF right_children # <<>>
        THEN [c4 EXCEPT !.right_child_edge_id = GetEdgeIdx(d, child_node, right_children[1])]
        ELSE c4

\* SelectFirstEdge(): the loop over every edge id of the DAG, from edge_id on.
RECURSIVE SelectFirstEdgeFrom(_, _, _)
SelectFirstEdgeFrom(d, vec, edge_id) ==
    IF edge_id < EdgeCountWithLeafSubsplits(d)
    THEN SelectFirstEdgeFrom(d, [vec EXCEPT ![edge_id] = SelectFirstEdgeChoice(d, edge_id)],
                             edge_id + 1)
    ELSE vec

(***************************************************************************)
(* SelectionIsValid.                                                       *)
(***************************************************************************)
\* The body of the loop for one edge: TRUE iff is_valid stays true.
EdgeChoiceIsValid(d, vec, edge_id) ==
    LET edge_choice == vec[edge_id]
        edge_max_id == EdgeIdxRangeSecond(d)
        is_empty == /\ edge_choice.parent_edge_id = NoId
                    /\ edge_choice.sister_edge_id = NoId
                    /\ edge_choice.left_child_edge_id = NoId
                    /\ edge_choice.right_child_edge_id = NoId
        bad_parent_or_sister ==
            /\ \/ edge_choice.parent_edge_id > edge_max_id
               \/ edge_choice.sister_edge_id > edge_max_id
            /\ \/ edge_choice.parent_edge_id # NoId
               \/ edge_choice.sister_edge_id # NoId
               \/ ~IsEdgeRoot(d, edge_id)
        BadChild(child_edge_id) ==
            /\ child_edge_id > edge_max_id
            /\ \/ child_edge_id # NoId
               \/ ~IsEdgeLeaf(d, edge_id)
    IN  /\ ~is_empty
        /\ ~bad_parent_or_sister
        /\ ~BadChild(edge_choice.left_child_edge_id)
        /\ ~BadChild(edge_choice.right_child_edge_id)

\* The loop over the choice sequence, stopping at the first invalid edge.
RECURSIVE SelectionIsValidFrom(_, _, _)
SelectionIsValidFrom(d, vec, edge_id) ==
    IF edge_id < Size(vec)
    THEN IF EdgeChoiceIsValid(d, vec, edge_id)
         THEN SelectionIsValidFrom(d, vec, edge_id + 1)
         ELSE FALSE
    ELSE TRUE

SelectionIsValid(d, vec) == SelectionIsValidFrom(d, vec, 0)

(***************************************************************************)
(* ExtractExpandedTreeMask(tree_mask).  The result is [ok, map]: ok is     *)
(* FALSE when an assertion ("Cannot reassign adjacent node") fails.        *)
(***************************************************************************)
NoAdjacentNodes == [Parent |-> NoId, LeftChild |-> NoId, RightChild |-> NoId]

WhichChild(clade) == IF clade = "Left" THEN "LeftChild" ELSE "RightChild"

\* Insert node_id with the given default if the map does not hold it yet.
InsertIfAbsent(map, node_id, default) ==
    IF node_id \in DOMAIN map
    THEN map
    ELSE [n \in DOMAIN map \cup {node_id} |-> IF n = node_id THEN default ELSE map[n]]

RECURSIVE ExpandedTreeMaskLoop(_, _, _)
ExpandedTreeMaskLoop(d, edges, tree_mask_ext_) ==
    IF edges = <<>>
    THEN [ok |-> TRUE, map |-> tree_mask_ext_]
    ELSE LET edge == GetDAGEdge(d, Head(edges))
             parent_id == edge.parent
             child_id == edge.child
             m0 == InsertIfAbsent(InsertIfAbsent(tree_mask_ext_, parent_id, NoAdjacentNodes),
                                  child_id, NoAdjacentNodes)
             which_node == WhichChild(edge.clade)
             m1 == [m0 EXCEPT ![parent_id][which_node] = child_id]
             m2 == [m1 EXCEPT ![child_id]["Parent"] = parent_id]
         IN  IF m0[parent_id][which_node] # NoId
             THEN [ok |-> FALSE, map |-> m0]
             ELSE IF m1[child_id]["Parent"] # NoId
                  THEN [ok |-> FALSE, map |-> m1]
                  ELSE ExpandedTreeMaskLoop(d, Tail(edges), m2)

\* A TreeMask is a std::set: it is walked in increasing edge id.
ExtractExpandedTreeMask(d, mask) == ExpandedTreeMaskLoop(d, SetToSortedSeq(mask), <<>>)

(***************************************************************************)
(* TreeMaskIsValid(tree_mask).                                             *)
(***************************************************************************)
NotConnected == [Parent |-> FALSE, LeftChild |-> FALSE, RightChild |-> FALSE]

\* The first loop: per edge, the root check, the leaf check and the node map.
\* The state is [ok, root_check, leaf_check, nodemap_check]; ok = FALSE is
\* the early "return false".
RECURSIVE TreeMaskEdgeLoop(_, _, _)
TreeMaskEdgeLoop(d, edges, st) ==
    IF edges = <<>>
    THEN st
    ELSE LET edge == GetDAGEdge(d, Head(edges))
             parent_node == edge.parent
             child_node == edge.child
             root_again == IsNodeRoot(d, parent_node) /\ st.root_check
             root_check1 == st.root_check \/ IsNodeRoot(d, parent_node)
             leaf_again == IsNodeLeaf(d, child_node) /\ st.leaf_check[child_node]
             leaf_check1 == IF IsNodeLeaf(d, child_node)
                            THEN [st.leaf_check EXCEPT ![child_node] = TRUE]
                            ELSE st.leaf_check
             m0 == InsertIfAbsent(InsertIfAbsent(st.nodemap_check, parent_node, NotConnected),
                                  child_node, NotConnected)
             which_child == WhichChild(edge.clade)
             m1 == [m0 EXCEPT ![parent_node][which_child] = TRUE]
             m2 == [m1 EXCEPT ![child_node]["Parent"] = TRUE]
             failed == [st EXCEPT !.ok = FALSE]
         IN  IF root_again THEN failed
             ELSE IF leaf_again THEN failed
             ELSE IF m0[parent_node][which_child] THEN failed
             ELSE IF m1[child_node]["Parent"] THEN failed
             ELSE TreeMaskEdgeLoop(d, Tail(edges),
                      [ok |-> TRUE, root_check |-> root_check1,
                       leaf_check |-> leaf_check1, nodemap_check |-> m2])

\* The second loop, for one node of the node map: "fully connected".
NodeIsFullyConnected(d, node_id, connections) ==
    LET no_child == ~(connections["LeftChild"] \/ connections["RightChild"])
        \* connections[LeftChild] ^ connections[RightChild]
        only_one_child == connections["LeftChild"] # connections["RightChild"]
        children_bad == no_child /\ (only_one_child \/ ~IsNodeLeaf(d, node_id))
        parent_bad == ~connections["Parent"] /\ ~IsNodeRoot(d, node_id)
    IN  ~children_bad /\ ~parent_bad

\* TreeMaskIsValid with the leaf-span check always passing.
SpansAllLeavesUnchecked(leaf_check) == TRUE

\* Check if spans all leaf nodes.
SpansAllLeaves(leaf_check) == \A i \in DOMAIN leaf_check : leaf_check[i]

TreeMaskIsValid(d, mask) ==
    LET st == TreeMaskEdgeLoop(d, SetToSortedSeq(mask),
                  [ok |-> TRUE, root_check |-> FALSE,
                   leaf_check |-> [i \in 0..(TaxonCount(d) - 1) |-> FALSE],
                   nodemap_check |-> <<>>])
    IN  /\ st.ok
        /\ \A node_id \in DOMAIN st.nodemap_check :
               NodeIsFullyConnected(d, node_id, st.nodemap_check[node_id])
        /\ st.root_check
        /\ SpansAllLeaves(st.leaf_check)

(***************************************************************************)
(* Initial state: the choice map as constructed for the DAG, one           *)
(* default-constructed (all-NoId) record per edge; no extraction running.  *)
(***************************************************************************)
NoExtraction ==
    /\ focal_edge_id = NoId
    /\ tree_mask = {}
    /\ rootward_stack = <<>>
    /\ leafward_stack = <<>>
    /\ mask_valid = <<>>
    /\ tree_mask_ext = <<>>
    /\ visited_left = <<>>
    /\ visited_right = <<>>
    /\ nodes = <<>>
    /\ node_id_counter = 0
    /\ current_node_id = NoId

NoNNI ==
    /\ pre_nni = "none"
    /\ post_nni = "none"
    /\ nni_pc = "none"
    /\ nni_result = <<>>

Init ==
    /\ dag \in DagIds
    /\ edge_choice_vector_ = [e \in EdgeIds(dag) |-> EmptyEdgeChoice]
    /\ pc = "constructed"
    /\ overwritten = FALSE
    /\ selection_valid = <<>>
    /\ pre_grow_vector = <<>>
    /\ NoExtraction
    /\ NoNNI

(***************************************************************************)
(* Selection.                                                              *)
(***************************************************************************)
\* SelectFirstEdge(): run by the owner of the map right after construction,
\* and again whenever it wants the default selection back.
SelectFirstEdgeAll ==
    /\ pc \in {"constructed", "idle"}
    /\ edge_choice_vector_' = SelectFirstEdgeFrom(dag, edge_choice_vector_, 0)
    /\ pc' = "idle"
    /\ selection_valid' = <<>>
    /\ overwritten' = FALSE
    /\ UNCHANGED <<dag, pre_grow_vector, maskVars, topoVars, nniVars>>

\* SelectFirstEdge(edge_id) on one edge of a map in use.
SelectFirstEdge(edge_id) ==
    /\ pc = "idle"
    /\ edge_id \in DOMAIN edge_choice_vector_
    /\ edge_choice_vector_' =
           [edge_choice_vector_ EXCEPT ![edge_id] = SelectFirstEdgeChoice(dag, edge_id)]
    /\ selection_valid' = <<>>
    /\ UNCHANGED <<pc, dag, overwritten, pre_grow_vector, maskVars, topoVars, nniVars>>

\* The edges of the DAG that are adjacent to edge_id in the given role.
AdjacentCandidates(d, edge_id, edge_choice_type) ==
    LET edge == GetDAGEdge(d, edge_id)
    IN  CASE edge_choice_type = "Parent" ->
               {x \in EdgeIds(d) : GetDAGEdge(d, x).child = edge.parent}
          [] edge_choice_type = "Sister" ->
               {x \in EdgeIds(d) : /\ GetDAGEdge(d, x).parent = edge.parent
                                   /\ GetDAGEdge(d, x).clade = Opposite(edge.clade)}
          [] edge_choice_type = "LeftChild" ->
               {x \in EdgeIds(d) : /\ GetDAGEdge(d, x).parent = edge.child
                                   /\ GetDAGEdge(d, x).clade = "Left"}
          [] OTHER ->
               {x \in EdgeIds(d) : /\ GetDAGEdge(d, x).parent = edge.child
                                   /\ GetDAGEdge(d, x).clade = "Right"}

\* A caller replaces one choice by another adjacent edge of the same role.
ChooseAdjacentEdge(edge_id, edge_choice_type, id) ==
    /\ pc = "idle"
    /\ edge_id \in DOMAIN edge_choice_vector_
    /\ id \in AdjacentCandidates(dag, edge_id, edge_choice_type)
    /\ edge_choice_vector_' =
           [edge_choice_vector_ EXCEPT
               ![edge_id] = SetEdgeChoice(edge_choice_vector_[edge_id], edge_choice_type, id)]
    /\ selection_valid' = <<>>
    /\ UNCHANGED <<pc, dag, overwritten, pre_grow_vector, maskVars, topoVars, nniVars>>

\* The ids a careless caller may write: any valid id, NoId, and ids just past
\* the valid range.
AnyIds(d) == (0..(EdgeCountWithLeafSubsplits(d) - 1 + MaxBeyond)) \cup {NoId}

\* A caller overwrites one choice with an arbitrary id (a stale or corrupted
\* map); modelled once per map.
OverwriteEdgeChoice(edge_id, edge_choice_type, id) ==
    /\ pc = "idle"
    /\ ~overwritten
    /\ edge_id \in DOMAIN edge_choice_vector_
    /\ id \in AnyIds(dag)
    /\ edge_choice_vector_' =
           [edge_choice_vector_ EXCEPT
               ![edge_id] = SetEdgeChoice(edge_choice_vector_[edge_id], edge_choice_type, id)]
    /\ overwritten' = TRUE
    /\ selection_valid' = <<>>
    /\ UNCHANGED <<pc, dag, pre_grow_vector, maskVars, topoVars, nniVars>>

\* The caller asks SelectionIsValid.
CheckSelection ==
    /\ pc \in {"constructed", "idle"}
    /\ selection_valid' = <<SelectionIsValid(dag, edge_choice_vector_)>>
    /\ UNCHANGED <<pc, dag, edge_choice_vector_, overwritten, pre_grow_vector,
                   maskVars, topoVars, nniVars>>

(***************************************************************************)
(* ExtractTreeMask(central_edge_id), one action per loop iteration.        *)
(***************************************************************************)
StackPushIfValidId(stack, id) == IF id # NoId THEN Append(stack, id) ELSE stack

\* The beginning of ExtractTreeMask with the right child of the central edge
\* never pushed.
ExtractTreeMaskBeginLeftOnly(central_edge_id) ==
    /\ pc = "idle"
    /\ central_edge_id \in DOMAIN edge_choice_vector_
    /\ rootward_stack' =
           StackPushIfValidId(<<>>, edge_choice_vector_[central_edge_id].left_child_edge_id)
    /\ focal_edge_id' = central_edge_id
    /\ tree_mask' = {}
    /\ leafward_stack' = <<>>
    /\ pc' = "rootward"
    /\ selection_valid' = <<>>
    /\ UNCHANGED <<dag, edge_choice_vector_, overwritten, pre_grow_vector, mask_valid,
                   topoVars, nniVars>>

\* Lines 200-211: the locals, and the central edge's children pushed.
ExtractTreeMaskBegin(central_edge_id) ==
    /\ pc = "idle"
    /\ central_edge_id \in DOMAIN edge_choice_vector_
    /\ LET focal_choices == edge_choice_vector_[central_edge_id]
       IN  rootward_stack' =
               StackPushIfValidId(
                   StackPushIfValidId(<<>>, focal_choices.left_child_edge_id),
                   focal_choices.right_child_edge_id)
    /\ focal_edge_id' = central_edge_id
    /\ tree_mask' = {}
    /\ leafward_stack' = <<>>
    /\ pc' = "rootward"
    /\ selection_valid' = <<>>
    /\ UNCHANGED <<dag, edge_choice_vector_, overwritten, pre_grow_vector, mask_valid,
                   topoVars, nniVars>>

\* The rootward pass with the sister of the focal edge not kept for the
\* leafward pass.
RootwardStepNoSister ==
    /\ pc = "rootward"
    /\ Len(rootward_stack) <= MaxStack
    /\ IF ~(focal_edge_id < EdgeIdxRangeSecond(dag))
       THEN /\ pc' = "failed"
            /\ UNCHANGED <<focal_edge_id, tree_mask, rootward_stack, leafward_stack>>
       ELSE IF focal_edge_id \notin DOMAIN edge_choice_vector_
       THEN /\ pc' = "failed"
            /\ tree_mask' = tree_mask \cup {focal_edge_id}
            /\ UNCHANGED <<focal_edge_id, rootward_stack, leafward_stack>>
       ELSE IF IsEdgeRoot(dag, focal_edge_id)
       THEN /\ tree_mask' = tree_mask \cup {focal_edge_id}
            /\ leafward_stack' = Reverse(rootward_stack)
            /\ rootward_stack' = <<>>
            /\ pc' = "leafward"
            /\ UNCHANGED focal_edge_id
       ELSE /\ tree_mask' = tree_mask \cup {focal_edge_id}
            /\ focal_edge_id' = edge_choice_vector_[focal_edge_id].parent_edge_id
            /\ UNCHANGED <<pc, rootward_stack, leafward_stack>>
    /\ UNCHANGED <<cmVars, mask_valid, topoVars, nniVars>>

\* One iteration of "while (!at_root)".  On reaching a root edge the pending
\* edges are moved from rootward_stack to leafward_stack (lines 231-235).
RootwardStep ==
    /\ pc = "rootward"
    /\ Len(rootward_stack) <= MaxStack
    /\ IF ~(focal_edge_id < EdgeIdxRangeSecond(dag))
       THEN \* Assert(focal_edge_id < edge_max_id) fails.
            /\ pc' = "failed"
            /\ UNCHANGED <<focal_edge_id, tree_mask, rootward_stack, leafward_stack>>
       ELSE IF focal_edge_id \notin DOMAIN edge_choice_vector_
       THEN \* edge_choice_vector_.at() throws.
            /\ pc' = "failed"
            /\ tree_mask' = tree_mask \cup {focal_edge_id}
            /\ UNCHANGED <<focal_edge_id, rootward_stack, leafward_stack>>
       ELSE IF IsEdgeRoot(dag, focal_edge_id)
       THEN /\ tree_mask' = tree_mask \cup {focal_edge_id}
            /\ leafward_stack' = Reverse(rootward_stack)
            /\ rootward_stack' = <<>>
            /\ pc' = "leafward"
            /\ UNCHANGED focal_edge_id
       ELSE /\ tree_mask' = tree_mask \cup {focal_edge_id}
            /\ focal_edge_id' = edge_choice_vector_[focal_edge_id].parent_edge_id
            /\ rootward_stack' =
                   Append(rootward_stack, edge_choice_vector_[focal_edge_id].sister_edge_id)
            /\ UNCHANGED <<pc, leafward_stack>>
    /\ UNCHANGED <<cmVars, mask_valid, topoVars, nniVars>>

\* The leafward pass with an edge id that has no choice record skipped instead
\* of failing.
LeafwardStepSkipMissing ==
    /\ pc = "leafward"
    /\ Len(leafward_stack) <= MaxStack
    /\ IF leafward_stack = <<>>
       THEN /\ pc' = "returned"
            /\ UNCHANGED <<tree_mask, leafward_stack>>
       ELSE LET edge_id == leafward_stack[Len(leafward_stack)]
                popped == SubSeq(leafward_stack, 1, Len(leafward_stack) - 1)
            IN  /\ tree_mask' = tree_mask \cup {edge_id}
                /\ leafward_stack' =
                       IF edge_id \notin DOMAIN edge_choice_vector_
                       THEN popped
                       ELSE StackPushIfValidId(
                                StackPushIfValidId(
                                    popped, edge_choice_vector_[edge_id].left_child_edge_id),
                                edge_choice_vector_[edge_id].right_child_edge_id)
                /\ UNCHANGED pc
    /\ UNCHANGED <<cmVars, focal_edge_id, rootward_stack, mask_valid, topoVars, nniVars>>

\* One iteration of "while (!leafward_stack.empty())", or the return.
LeafwardStep ==
    /\ pc = "leafward"
    /\ Len(leafward_stack) <= MaxStack
    /\ IF leafward_stack = <<>>
       THEN /\ pc' = "returned"
            /\ UNCHANGED <<tree_mask, leafward_stack>>
       ELSE LET edge_id == leafward_stack[Len(leafward_stack)]
                popped == SubSeq(leafward_stack, 1, Len(leafward_stack) - 1)
            IN  IF edge_id \notin DOMAIN edge_choice_vector_
                THEN \* edge_choice_vector_.at() throws.
                     /\ pc' = "failed"
                     /\ tree_mask' = tree_mask \cup {edge_id}
                     /\ leafward_stack' = popped
                ELSE /\ tree_mask' = tree_mask \cup {edge_id}
                     /\ leafward_stack' =
                            StackPushIfValidId(
                                StackPushIfValidId(
                                    popped, edge_choice_vector_[edge_id].left_child_edge_id),
                                edge_choice_vector_[edge_id].right_child_edge_id)
                     /\ UNCHANGED pc
    /\ UNCHANGED <<cmVars, focal_edge_id, rootward_stack, mask_valid, topoVars, nniVars>>

\* The caller asks TreeMaskIsValid of the mask it was returned, or of an edge
\* set of its own.
CheckTreeMask ==
    /\ pc \in {"returned", "given"}
    /\ mask_valid' = <<TreeMaskIsValid(dag, tree_mask)>>
    /\ UNCHANGED <<pc, cmVars, focal_edge_id, tree_mask, rootward_stack, leafward_stack,
                   topoVars, nniVars>>

(***************************************************************************)
(* ExtractTopology(tree_mask), one action per iteration of the cursor loop.*)
(***************************************************************************)
\* A null NodePtr, Node::Leaf and Node::Join.
Nullptr == [id |-> NoId, children |-> <<>>]
\* Node::Leaf tagged with the running synthetic id instead of the taxon id.
NodeLeafSyntheticId(id) == [id |-> node_id_counter, children |-> <<>>]
NodeLeaf(id) == [id |-> id, children |-> <<>>]
NodeJoin(left, right, id) == [id |-> id, children |-> <<left, right>>]

\* map[key] = value on a std::map / std::unordered_map.
MapPut(map, key, value) ==
    [k \in DOMAIN map \cup {key} |-> IF k = key THEN value ELSE map[k]]

\* Lines 384-412: expand the mask, check the root, clear the visited flags.
ExtractTopologyBegin ==
    /\ pc \in {"returned", "given"}
    /\ LET ext == ExtractExpandedTreeMask(dag, tree_mask)
           dag_root_id == GetDAGRootNodeId(dag)
       IN  IF \/ ~ext.ok
              \/ dag_root_id \notin DOMAIN ext.map
              \/ ext.map[dag_root_id]["LeftChild"] = NoId
           THEN \* an assertion fails
                /\ pc' = "topo_failed"
                /\ UNCHANGED topoVars
           ELSE /\ pc' = "topology"
                /\ tree_mask_ext' = ext.map
                /\ visited_left' = [n \in DOMAIN ext.map |-> FALSE]
                /\ visited_right' = [n \in DOMAIN ext.map |-> FALSE]
                /\ node_id_counter' = TaxonCount(dag)
                /\ current_node_id' = dag_root_id
                /\ nodes' = MapPut(<<>>, ext.map[dag_root_id]["LeftChild"], Nullptr)
    /\ UNCHANGED <<cmVars, maskVars, nniVars>>

DagRootsplitId == tree_mask_ext[GetDAGRootNodeId(dag)]["LeftChild"]

\* The iteration with the right branch taken but not marked as visited.
ExtractTopologyStepRightUnmarked ==
    /\ pc = "topology"
    /\ nodes[DagRootsplitId] = Nullptr
    /\ IF current_node_id \notin DOMAIN tree_mask_ext
       THEN \* the cursor left the mask (NoId): the lookups are undefined
            /\ pc' = "topo_failed"
            /\ UNCHANGED topoVars
       ELSE LET adj == tree_mask_ext[current_node_id]
                left_child_id == adj["LeftChild"]
                right_child_id == adj["RightChild"]
            IN  IF visited_right[current_node_id]
                THEN IF \/ left_child_id \notin DOMAIN nodes
                        \/ right_child_id \notin DOMAIN nodes
                     THEN \* nodes.at() throws
                          /\ pc' = "topo_failed"
                          /\ UNCHANGED topoVars
                     ELSE /\ nodes' = MapPut(nodes, current_node_id,
                                          NodeJoin(nodes[left_child_id],
                                                   nodes[right_child_id], node_id_counter))
                          /\ node_id_counter' = node_id_counter + 1
                          /\ IF adj["Parent"] = current_node_id
                             THEN pc' = "topo_failed" /\ UNCHANGED current_node_id
                             ELSE pc' = pc /\ current_node_id' = adj["Parent"]
                          /\ UNCHANGED <<tree_mask_ext, visited_left, visited_right>>
                ELSE IF visited_left[current_node_id]
                THEN /\ visited_right' = visited_right
                     /\ IF right_child_id = current_node_id
                        THEN pc' = "topo_failed" /\ UNCHANGED current_node_id
                        ELSE pc' = pc /\ current_node_id' = right_child_id
                     /\ UNCHANGED <<tree_mask_ext, visited_left, nodes, node_id_counter>>
                ELSE IF IsNodeLeaf(dag, current_node_id)
                THEN /\ nodes' = MapPut(nodes, current_node_id, NodeLeaf(current_node_id))
                     /\ IF adj["Parent"] = current_node_id
                        THEN pc' = "topo_failed" /\ UNCHANGED current_node_id
                        ELSE pc' = pc /\ current_node_id' = adj["Parent"]
                     /\ UNCHANGED <<tree_mask_ext, visited_left, visited_right,
                                    node_id_counter>>
                ELSE /\ visited_left' = [visited_left EXCEPT ![current_node_id] = TRUE]
                     /\ IF left_child_id = current_node_id
                        THEN pc' = "topo_failed" /\ UNCHANGED current_node_id
                        ELSE pc' = pc /\ current_node_id' = left_child_id
                     /\ UNCHANGED <<tree_mask_ext, visited_right, nodes, node_id_counter>>
    /\ UNCHANGED <<cmVars, maskVars, nniVars>>

\* One iteration of "while (nodes[dag_rootsplit_id] == nullptr)".
ExtractTopologyStep ==
    /\ pc = "topology"
    /\ nodes[DagRootsplitId] = Nullptr
    /\ IF current_node_id \notin DOMAIN tree_mask_ext
       THEN \* the cursor left the mask (NoId): the lookups are undefined
            /\ pc' = "topo_failed"
            /\ UNCHANGED topoVars
       ELSE LET adj == tree_mask_ext[current_node_id]
                left_child_id == adj["LeftChild"]
                right_child_id == adj["RightChild"]
            IN  IF visited_right[current_node_id]
                THEN IF \/ left_child_id \notin DOMAIN nodes
                        \/ right_child_id \notin DOMAIN nodes
                     THEN \* nodes.at() throws
                          /\ pc' = "topo_failed"
                          /\ UNCHANGED topoVars
                     ELSE /\ nodes' = MapPut(nodes, current_node_id,
                                          NodeJoin(nodes[left_child_id],
                                                   nodes[right_child_id], node_id_counter))
                          /\ node_id_counter' = node_id_counter + 1
                          /\ IF adj["Parent"] = current_node_id
                             THEN pc' = "topo_failed" /\ UNCHANGED current_node_id
                             ELSE pc' = pc /\ current_node_id' = adj["Parent"]
                          /\ UNCHANGED <<tree_mask_ext, visited_left, visited_right>>
                ELSE IF visited_left[current_node_id]
                THEN /\ visited_right' = [visited_right EXCEPT ![current_node_id] = TRUE]
                     /\ IF right_child_id = current_node_id
                        THEN pc' = "topo_failed" /\ UNCHANGED current_node_id
                        ELSE pc' = pc /\ current_node_id' = right_child_id
                     /\ UNCHANGED <<tree_mask_ext, visited_left, nodes, node_id_counter>>
                ELSE IF IsNodeLeaf(dag, current_node_id)
                THEN /\ nodes' = MapPut(nodes, current_node_id, NodeLeaf(current_node_id))
                     /\ IF adj["Parent"] = current_node_id
                        THEN pc' = "topo_failed" /\ UNCHANGED current_node_id
                        ELSE pc' = pc /\ current_node_id' = adj["Parent"]
                     /\ UNCHANGED <<tree_mask_ext, visited_left, visited_right,
                                    node_id_counter>>
                ELSE /\ visited_left' = [visited_left EXCEPT ![current_node_id] = TRUE]
                     /\ IF left_child_id = current_node_id
                        THEN pc' = "topo_failed" /\ UNCHANGED current_node_id
                        ELSE pc' = pc /\ current_node_id' = left_child_id
                     /\ UNCHANGED <<tree_mask_ext, visited_right, nodes, node_id_counter>>
    /\ UNCHANGED <<cmVars, maskVars, nniVars>>

\* The loop has ended: the final assertion and the return of the topology.
ExtractTopologyReturn ==
    /\ pc = "topology"
    /\ nodes[DagRootsplitId] # Nullptr
    /\ pc' = IF Cardinality(DOMAIN nodes) + 1 = Cardinality(DOMAIN tree_mask_ext)
             THEN "topo_done"
             ELSE "topo_failed"
    /\ UNCHANGED <<cmVars, maskVars, topoVars, nniVars>>

\* The topology ExtractTopology returned.
Topology == nodes[DagRootsplitId]

\* Control is back with the caller; the locals of the call are gone.
Return ==
    /\ pc \in {"returned", "failed", "topo_done", "topo_failed"}
    /\ pc' = "idle"
    /\ focal_edge_id' = NoId
    /\ tree_mask' = {}
    /\ rootward_stack' = <<>>
    /\ leafward_stack' = <<>>
    /\ mask_valid' = <<>>
    /\ tree_mask_ext' = <<>>
    /\ visited_left' = <<>>
    /\ visited_right' = <<>>
    /\ nodes' = <<>>
    /\ node_id_counter' = 0
    /\ current_node_id' = NoId
    /\ UNCHANGED <<cmVars, nniVars>>

(***************************************************************************)
(* Spec: a choice map used as intended.  Every choice is NoId or an edge   *)
(* of the DAG adjacent in its role.                                        *)
(***************************************************************************)
Next ==
    \/ SelectFirstEdgeAll
    \/ pc = "idle" /\ \E edge_id \in EdgeIds(dag) : SelectFirstEdge(edge_id)
    \/ pc = "idle" /\ \E edge_id \in EdgeIds(dag), edge_choice_type \in AdjacentEdge :
           \E id \in AdjacentCandidates(dag, edge_id, edge_choice_type) :
               ChooseAdjacentEdge(edge_id, edge_choice_type, id)
    \/ CheckSelection
    \/ pc = "idle" /\ \E central_edge_id \in EdgeIds(dag) :
           ExtractTreeMaskBegin(central_edge_id)
    \/ RootwardStep
    \/ LeafwardStep
    \/ CheckTreeMask
    \/ ExtractTopologyBegin
    \/ ExtractTopologyStep
    \/ ExtractTopologyReturn
    \/ Return

Spec == Init /\ [][Next]_vars

(***************************************************************************)
(* SpecStale: selection checking and mask extraction on a map in which a   *)
(* caller has overwritten one choice with an arbitrary id.                 *)
(***************************************************************************)
NextStale ==
    \/ SelectFirstEdgeAll
    \/ pc = "idle" /\ ~overwritten /\
           \E edge_id \in EdgeIds(dag), edge_choice_type \in AdjacentEdge, id \in AnyIds(dag) :
               OverwriteEdgeChoice(edge_id, edge_choice_type, id)
    \/ CheckSelection
    \/ pc = "idle" /\ \E central_edge_id \in EdgeIds(dag) :
           ExtractTreeMaskBegin(central_edge_id)
    \/ RootwardStep
    \/ LeafwardStep
    \/ Return

SpecStale == Init /\ [][NextStale]_vars

(***************************************************************************)
(* SpecMask: TreeMaskIsValid applied to an arbitrary set of edges of the   *)
(* DAG.                                                                    *)
(***************************************************************************)
InitMask ==
    /\ dag \in DagIds
    /\ edge_choice_vector_ = [e \in EdgeIds(dag) |-> EmptyEdgeChoice]
    /\ pc = "given"
    /\ overwritten = FALSE
    /\ selection_valid = <<>>
    /\ pre_grow_vector = <<>>
    /\ focal_edge_id = NoId
    /\ tree_mask \in SUBSET EdgeIds(dag)
    /\ rootward_stack = <<>>
    /\ leafward_stack = <<>>
    /\ mask_valid = <<>>
    /\ tree_mask_ext = <<>>
    /\ visited_left = <<>>
    /\ visited_right = <<>>
    /\ nodes = <<>>
    /\ node_id_counter = 0
    /\ current_node_id = NoId
    /\ NoNNI

NextMask == CheckTreeMask

SpecMask == InitMask /\ [][NextMask]_vars

(***************************************************************************)
(* GrowEdgeData(new_edge_count, edge_reindexer).  A Reindexer is a         *)
(* function from old index to new index on 0 .. size-1; an absent          *)
(* reindexer is <<>>, a given one <<reindexer>>.                           *)
(***************************************************************************)
IdentityReindexer(size) == [i \in 0..(size - 1) |-> i]

\* Reindexer::ReindexInPlace: the element at old index i moves to the new
\* index of i.
ReindexInPlace(data, reindexer, length) ==
    [j \in 0..(length - 1) |-> data[CHOOSE i \in 0..(length - 1) : reindexer[i] = j]]

\* edge_choice_vector_.resize(new_edge_count).
Resize(vec, new_edge_count) ==
    [e \in 0..(new_edge_count - 1) |->
        IF e \in DOMAIN vec THEN vec[e] ELSE EmptyEdgeChoice]

\* The remapping of one record with the child fields left as they were.
RemapEdgeChoiceParentAndSister(choice, reindexer) ==
    [parent_edge_id |->
         IF choice.parent_edge_id # NoId
         THEN reindexer[choice.parent_edge_id] ELSE NoId,
     sister_edge_id |->
         IF choice.sister_edge_id # NoId
         THEN reindexer[choice.sister_edge_id] ELSE NoId,
     left_child_edge_id |-> choice.left_child_edge_id,
     right_child_edge_id |-> choice.right_child_edge_id]

\* The four fields of one record remapped: every field but NoId goes through
\* GetNewIndexByOldIndex.
RemapEdgeChoice(choice, reindexer) ==
    [parent_edge_id |->
         IF choice.parent_edge_id # NoId
         THEN reindexer[choice.parent_edge_id] ELSE NoId,
     sister_edge_id |->
         IF choice.sister_edge_id # NoId
         THEN reindexer[choice.sister_edge_id] ELSE NoId,
     left_child_edge_id |->
         IF choice.left_child_edge_id # NoId
         THEN reindexer[choice.left_child_edge_id] ELSE NoId,
     right_child_edge_id |->
         IF choice.right_child_edge_id # NoId
         THEN reindexer[choice.right_child_edge_id] ELSE NoId]

\* Whether some field of the resized sequence has no entry in the reindexer.
RemapFails(vec, reindexer) ==
    \E e \in DOMAIN vec, t \in AdjacentEdge :
        /\ GetEdgeChoice(vec[e], t) # NoId
        /\ GetEdgeChoice(vec[e], t) \notin DOMAIN reindexer

\* GrowEdgeData with the sequence built anew instead of resized.
GrowEdgeDataCleared(vec, new_edge_count, edge_reindexer) ==
    [ok |-> TRUE, vec |-> [e \in 0..(new_edge_count - 1) |-> EmptyEdgeChoice]]

\* [ok, vec]: the sequence GrowEdgeData leaves; ok is false when a lookup in
\* the reindexer fails.
GrowEdgeData(vec, new_edge_count, edge_reindexer) ==
    LET resized == Resize(vec, new_edge_count)
    IN  IF edge_reindexer = <<>>
        THEN [ok |-> TRUE, vec |-> resized]
        ELSE LET reindexer == edge_reindexer[1]
             IN  IF RemapFails(resized, reindexer)
                 THEN [ok |-> FALSE, vec |-> resized]
                 ELSE [ok |-> TRUE,
                       vec |-> ReindexInPlace(
                                   [e \in DOMAIN resized |->
                                       RemapEdgeChoice(resized[e], reindexer)],
                                   reindexer, new_edge_count)]

\* The number of GrowEdgeData calls made so far.
GrowCalls == IF pre_grow_vector = <<>> THEN 0 ELSE Len(pre_grow_vector) - 1

\* The owner of the map calls GrowEdgeData after the DAG has gained edges.
\* pre_grow_vector records the sequence before the first call and the
\* arguments of each call.
CallGrowEdgeData(new_edge_count, edge_reindexer) ==
    /\ pc \in {"idle", "grown"}
    /\ GrowCalls < MaxGrow
    /\ new_edge_count >= Size(edge_choice_vector_)
    /\ new_edge_count <= EdgeCountWithLeafSubsplits(dag) + MaxGrow
    /\ LET grown == GrowEdgeData(edge_choice_vector_, new_edge_count, edge_reindexer)
       IN  /\ edge_choice_vector_' = grown.vec
           /\ pc' = IF grown.ok THEN "grown" ELSE "grow_failed"
    /\ pre_grow_vector' =
           LET call == [new_edge_count |-> new_edge_count,
                        edge_reindexer |-> edge_reindexer]
           IN  IF pre_grow_vector = <<>>
               THEN <<edge_choice_vector_, call>>
               ELSE Append(pre_grow_vector, call)
    /\ selection_valid' = <<>>
    /\ UNCHANGED <<dag, overwritten, maskVars, topoVars, nniVars>>

(***************************************************************************)
(* SpecGrow: a map in use grown with no reindexer or the identity.         *)
(***************************************************************************)
NextGrow ==
    \/ SelectFirstEdgeAll
    \/ pc = "idle" /\ \E edge_id \in EdgeIds(dag), edge_choice_type \in AdjacentEdge :
           \E id \in AdjacentCandidates(dag, edge_id, edge_choice_type) :
               ChooseAdjacentEdge(edge_id, edge_choice_type, id)
    \/ pc \in {"idle", "grown"} /\
           \E new_edge_count \in
                  Size(edge_choice_vector_)..(EdgeCountWithLeafSubsplits(dag) + MaxGrow) :
               \E edge_reindexer \in {<<>>, <<IdentityReindexer(new_edge_count)>>} :
                   CallGrowEdgeData(new_edge_count, edge_reindexer)

SpecGrow == Init /\ [][NextGrow]_vars

(***************************************************************************)
(* The NNI operation algebra.  A clade (Bitset) is the set of its taxa, a  *)
(* subsplit is the pair <<left clade, right clade>> of two disjoint        *)
(* clades in sorted order, an NNIOperation is a parent and a child         *)
(* subsplit, the child splitting one clade of the parent.                  *)
(***************************************************************************)
Taxa == 0..(MaxTaxa - 1)

Clades == (SUBSET Taxa) \ {{}}

\* Bitset::operator<: bit vectors compared lexicographically, taxon 0 first.
CladeLess(a, b) == a # b /\ Min((a \ b) \cup (b \ a)) \in b

\* Bitset::Subsplit: the subsplit of two disjoint clades, the clades sorted.
Subsplit(clade_0, clade_1) ==
    IF CladeLess(clade_0, clade_1) THEN <<clade_0, clade_1>> ELSE <<clade_1, clade_0>>

\* Bitset::SubsplitGetClade: false (0) is the left clade, true (1) the right.
SubsplitGetClade(subsplit, is_right) == IF is_right THEN subsplit[2] ELSE subsplit[1]

SubsplitCladeUnion(subsplit) == subsplit[1] \cup subsplit[2]

SubsplitIsParentChildPair(parent, child) ==
    SubsplitCladeUnion(child) \in {parent[1], parent[2]}

SubsplitIsChildOfWhichParentClade(parent, child) ==
    IF SubsplitCladeUnion(child) = parent[1] THEN "Left" ELSE "Right"

AllSubsplits == {Subsplit(a, b) : <<a, b>> \in {c \in Clades \X Clades : c[1] \cap c[2] = {}}}

NNIOperation(parent, child) == [parent_ |-> parent, child_ |-> child]

\* Every NNI operation over the taxa (NNIOperation::IsValid holds of each).
AllNNI ==
    {NNIOperation(pair[1], pair[2]) :
        pair \in {x \in AllSubsplits \X AllSubsplits : SubsplitIsParentChildPair(x[1], x[2])}}

GetFocalClade(nni) ==
    SubsplitGetClade(nni.parent_,
                     SubsplitIsChildOfWhichParentClade(nni.parent_, nni.child_) = "Right")

GetSisterClade(nni) ==
    SubsplitGetClade(nni.parent_,
                     SubsplitIsChildOfWhichParentClade(nni.parent_, nni.child_) # "Right")

GetLeftChildClade(nni) == SubsplitGetClade(nni.child_, FALSE)

GetRightChildClade(nni) == SubsplitGetClade(nni.child_, TRUE)

NNIClade == {"ParentFocal", "ParentSister", "ChildLeft", "ChildRight"}

GetClade(nni, nni_clade) ==
    CASE nni_clade = "ParentFocal" -> GetFocalClade(nni)
      [] nni_clade = "ParentSister" -> GetSisterClade(nni)
      [] nni_clade = "ChildLeft" -> GetLeftChildClade(nni)
      [] OTHER -> GetRightChildClade(nni)

\* NNIOperationFromNeighboringSubsplits(parent_in, child_in,
\* is_sister_swapped_with_right_child, is_focal_clade_on_right).
NNIOperationFromSubsplitsAndFocal(parent_in, child_in, is_sister_swapped_with_right_child, is_focal_clade_on_right) ==
    LET X == SubsplitGetClade(parent_in, ~is_focal_clade_on_right)
        Y == SubsplitGetClade(child_in, is_sister_swapped_with_right_child)
        Z == SubsplitGetClade(child_in, ~is_sister_swapped_with_right_child)
        parent_out == Subsplit(Y, X \cup Z)
        child_out == Subsplit(X, Z)
    IN  NNIOperation(parent_out, child_out)

\* NNIOperationFromNeighboringSubsplits(parent_in, child_in,
\* is_sister_swapped_with_right_child): the focal clade is detected.
NNIOperationFromSubsplits(parent_in, child_in, is_sister_swapped_with_right_child) ==
    LET focal_clade_of_parent == SubsplitIsChildOfWhichParentClade(parent_in, child_in)
        is_focal_clade_on_right == (focal_clade_of_parent = "Right")
    IN  NNIOperationFromSubsplitsAndFocal(parent_in, child_in,
                                          is_sister_swapped_with_right_child,
                                          is_focal_clade_on_right)

\* The member: nni.NNIOperationFromNeighboringSubsplits(bool).
NNIOperationFromNeighboringSubsplits(nni, is_sister_swapped_with_right_child) ==
    NNIOperationFromSubsplits(nni.parent_, nni.child_, is_sister_swapped_with_right_child)

\* std::sort of an array of clades.
InsertSorted(clade, sorted) ==
    LET k == Cardinality({i \in 1..Len(sorted) : ~CladeLess(clade, sorted[i])})
    IN  SubSeq(sorted, 1, k) \o <<clade>> \o SubSeq(sorted, k + 1, Len(sorted))

RECURSIVE SortClades(_)
SortClades(vec) ==
    IF vec = <<>> THEN <<>> ELSE InsertSorted(Head(vec), SortClades(Tail(vec)))

\* AreNNIOperationsNeighbors with the test of the sister clades left out.
AreNNIOperationsNeighborsNoSisterTest(nni_a, nni_b) ==
    LET vec_a == <<GetSisterClade(nni_a), GetLeftChildClade(nni_a),
                   GetRightChildClade(nni_a)>>
        vec_b == <<GetSisterClade(nni_b), GetLeftChildClade(nni_b),
                   GetRightChildClade(nni_b)>>
    IN  SortClades(vec_a) = SortClades(vec_b)

AreNNIOperationsNeighbors(nni_a, nni_b) ==
    IF GetSisterClade(nni_a) = GetSisterClade(nni_b)
    THEN FALSE
    ELSE LET vec_a == <<GetSisterClade(nni_a), GetLeftChildClade(nni_a),
                        GetRightChildClade(nni_a)>>
             vec_b == <<GetSisterClade(nni_b), GetLeftChildClade(nni_b),
                        GetRightChildClade(nni_b)>>
         IN  SortClades(vec_a) = SortClades(vec_b)

\* <<the boolean returned>>, or <<>> when the assertion of the precondition
\* fails.
WhichCladeSwapWithSisterToCreatePostNNI(pre, post) ==
    IF ~AreNNIOperationsNeighbors(pre, post)
    THEN <<>>
    ELSE LET pre_sister == GetSisterClade(pre)
             is_sister_swapped_with_right_child == (pre_sister = GetRightChildClade(post))
         IN  <<is_sister_swapped_with_right_child>>

mappable_clades == <<"ParentSister", "ChildLeft", "ChildRight">>

\* The inner loop of BuildNNICladeMapFromPreNNIToNNI: the first role of
\* post_nni not mapped yet whose clade is pre_nni_clade, <<>> if there is none.
FindPostClade(pre_nni_clade, post, mapped_post_clades) ==
    LET found == {j \in 1..Len(mappable_clades) :
                     /\ ~mapped_post_clades[mappable_clades[j]]
                     /\ pre_nni_clade = GetClade(post, mappable_clades[j])}
    IN  IF found = {} THEN <<>> ELSE <<mappable_clades[Min(found)]>>

\* The outer loop from the i-th mappable role on.
RECURSIVE CladeMapLoop(_, _, _, _)
CladeMapLoop(pre, post, i, st) ==
    IF ~st.ok \/ i > Len(mappable_clades)
    THEN st
    ELSE LET pre_nni_clade_type == mappable_clades[i]
             hit == FindPostClade(GetClade(pre, pre_nni_clade_type), post,
                                  st.mapped_post_clades)
         IN  IF hit = <<>>
             THEN [st EXCEPT !.ok = FALSE]
             ELSE CladeMapLoop(pre, post, i + 1,
                      [ok |-> TRUE,
                       nni_clade_map |-> (pre_nni_clade_type :> hit[1]) @@ st.nni_clade_map,
                       mapped_post_clades |->
                           [st.mapped_post_clades EXCEPT ![hit[1]] = TRUE]])

\* BuildNNICladeMapFromPreNNIToNNI recording the role of pre_nni under the
\* role of post_nni.
BuildNNICladeMapFromPostNNIToNNI(pre, post) ==
    LET st == CladeMapLoop(pre, post, 1,
                  [ok |-> AreNNIOperationsNeighbors(pre, post),
                   nni_clade_map |-> <<>>,
                   mapped_post_clades |-> [c \in NNIClade |-> FALSE]])
    IN  IF ~st.ok
        THEN [ok |-> FALSE, nni_clade_map |-> <<>>]
        ELSE [ok |-> TRUE,
              nni_clade_map |->
                  [c \in NNIClade |->
                      IF c = "ParentFocal" THEN "ParentFocal"
                      ELSE CHOOSE b \in DOMAIN st.nni_clade_map : st.nni_clade_map[b] = c]]

\* [ok, nni_clade_map]: ok is false when an assertion fails.
BuildNNICladeMapFromPreNNIToNNI(pre, post) ==
    LET st == CladeMapLoop(pre, post, 1,
                  [ok |-> AreNNIOperationsNeighbors(pre, post),
                   nni_clade_map |-> <<>>,
                   mapped_post_clades |-> [c \in NNIClade |-> FALSE]])
    IN  IF ~st.ok
        THEN [ok |-> FALSE, nni_clade_map |-> <<>>]
        ELSE [ok |-> TRUE,
              nni_clade_map |-> ("ParentFocal" :> "ParentFocal") @@ st.nni_clade_map]

(***************************************************************************)
(* SpecNNI: the operations of the algebra applied to every pair of NNI     *)
(* operations over the taxa.                                               *)
(***************************************************************************)
InitNNI ==
    /\ dag = 1
    /\ edge_choice_vector_ = [e \in EdgeIds(dag) |-> EmptyEdgeChoice]
    /\ pc = "nni"
    /\ overwritten = FALSE
    /\ selection_valid = <<>>
    /\ pre_grow_vector = <<>>
    /\ NoExtraction
    /\ pre_nni \in AllNNI
    /\ post_nni \in AllNNI
    /\ nni_pc = "given"
    /\ nni_result = <<>>

\* The caller asks AreNNIOperationsNeighbors(pre_nni, post_nni).
CompareNNIOperations ==
    /\ nni_pc = "given"
    /\ nni_pc' = "compared"
    /\ nni_result' = <<AreNNIOperationsNeighbors(pre_nni, post_nni)>>
    /\ UNCHANGED <<pc, cmVars, maskVars, topoVars, pre_nni, post_nni>>

\* The caller asks which clade to swap and applies the answer to pre_nni.
RebuildPostNNI ==
    /\ nni_pc = "given"
    /\ LET which == WhichCladeSwapWithSisterToCreatePostNNI(pre_nni, post_nni)
       IN  IF which = <<>>
           THEN /\ nni_pc' = "swap_assert_failed"
                /\ nni_result' = <<>>
           ELSE /\ nni_pc' = "rebuilt"
                /\ nni_result' = <<NNIOperationFromNeighboringSubsplits(pre_nni, which[1])>>
    /\ UNCHANGED <<pc, cmVars, maskVars, topoVars, pre_nni, post_nni>>

\* The caller asks BuildNNICladeMapFromPreNNIToNNI(pre_nni, post_nni).
MapNNIClades ==
    /\ nni_pc = "given"
    /\ LET built == BuildNNICladeMapFromPreNNIToNNI(pre_nni, post_nni)
       IN  IF ~built.ok
           THEN /\ nni_pc' = "map_assert_failed"
                /\ nni_result' = <<>>
           ELSE /\ nni_pc' = "mapped"
                /\ nni_result' = <<built.nni_clade_map>>
    /\ UNCHANGED <<pc, cmVars, maskVars, topoVars, pre_nni, post_nni>>

NextNNI ==
    \/ CompareNNIOperations
    \/ RebuildPostNNI
    \/ MapNNIClades

SpecNNI == InitNNI /\ [][NextNNI]_vars

(***************************************************************************)
(* Claims on the choice map used as intended (Spec).                       *)
(***************************************************************************)
\* Every edge of the map holds the default selection of SelectFirstEdge.
FreshlyDefaultSelected ==
    /\ DOMAIN edge_choice_vector_ = EdgeIds(dag)
    /\ \A e \in EdgeIds(dag) : edge_choice_vector_[e] = SelectFirstEdgeChoice(dag, e)

\* C1: after SelectFirstEdge has been run on every edge of a DAG without
\* isolated nodes, SelectionIsValid returns true: no record is all-NoId,
\* parent and sister are NoId only on root edges, a child is NoId only on
\* leaf edges.
C1_DefaultSelectionIsValid ==
    (FreshlyDefaultSelected /\ selection_valid # <<>>) =>
        /\ selection_valid = <<TRUE>>
        /\ \A e \in EdgeIds(dag) :
             LET c == edge_choice_vector_[e]
             IN  /\ c # EmptyEdgeChoice
                 /\ (c.parent_edge_id = NoId \/ c.sister_edge_id = NoId)
                        => IsEdgeRoot(dag, e)
                 /\ (c.left_child_edge_id = NoId \/ c.right_child_edge_id = NoId)
                        => IsEdgeLeaf(dag, e)

C1_Witness ==
    /\ FreshlyDefaultSelected
    /\ selection_valid = <<TRUE>>
    /\ dag = 2

RECURSIVE LeafIds(_)
LeafIds(t) ==
    IF t.children = <<>> THEN <<t.id>> ELSE LeafIds(t.children[1]) \o LeafIds(t.children[2])

\* C3: ExtractTopology of a tree mask always returns a topology; a leaf object
\* is built for every taxon of the DAG and for no other node, each taxon is a
\* leaf of the topology exactly once, and no leaf object is built twice.
C3_LeavesAreTheTaxa ==
    /\ [](pc # "topo_failed")
    /\ [](pc = "topo_done" =>
            LET leaves == LeafIds(Topology)
            IN  /\ Len(leaves) = TaxonCount(dag)
                /\ {leaves[i] : i \in 1..Len(leaves)} = 0..(TaxonCount(dag) - 1)
                /\ {n \in DOMAIN nodes : nodes[n].children = <<>>} = 0..(TaxonCount(dag) - 1)
                /\ \A n \in 0..(TaxonCount(dag) - 1) : nodes[n] = [id |-> n, children |-> <<>>])
    /\ [][(pc = "topology" /\ nodes' # nodes /\ IsNodeLeaf(dag, current_node_id))
              => current_node_id \notin DOMAIN nodes]_vars

C3_Witness ==
    /\ pc = "topo_done"
    /\ dag = 2
    /\ LeafIds(Topology) = <<3, 2, 1, 0>>

(***************************************************************************)
(* Claims on the NNI algebra (SpecNNI) and on growth (SpecGrow).           *)
(***************************************************************************)
\* C4: for every neighbouring pair (pre, post),
\* pre.NNIOperationFromNeighboringSubsplits(
\* WhichCladeSwapWithSisterToCreatePostNNI(pre, post)) equals post, parent
\* and child subsplit both.
C4_RoundTripReproducesPost ==
    (nni_pc = "rebuilt") => (nni_result = <<post_nni>>)

\* C5: for every neighbouring pair, BuildNNICladeMapFromPreNNIToNNI fails no
\* assertion, maps ParentFocal to ParentFocal and maps ParentSister,
\* ChildLeft, ChildRight of pre one-to-one onto the same roles of post, the
\* clade of pre in a role being the clade of post in the mapped role.
C5_CladeMapIsBijection ==
    /\ (nni_pc = "map_assert_failed") => ~AreNNIOperationsNeighbors(pre_nni, post_nni)
    /\ (nni_pc = "mapped") =>
          LET nni_clade_map == nni_result[1]
              mappable == {mappable_clades[j] : j \in 1..Len(mappable_clades)}
          IN  /\ AreNNIOperationsNeighbors(pre_nni, post_nni)
              /\ DOMAIN nni_clade_map = NNIClade
              /\ nni_clade_map["ParentFocal"] = "ParentFocal"
              /\ {nni_clade_map[c] : c \in mappable} = mappable
              /\ \A c \in mappable :
                     GetClade(pre_nni, c) = GetClade(post_nni, nni_clade_map[c])

\* A map in which no mappable role keeps its place.
C5_Witness ==
    /\ nni_pc = "mapped"
    /\ \A j \in 1..Len(mappable_clades) :
           nni_result[1][mappable_clades[j]] # mappable_clades[j]

\* The sequence GrowEdgeData leaves when the sequence before the first call
\* is grown at once to the present size with the identity reindexer.
GrownDirectly ==
    GrowEdgeData(pre_grow_vector[1], Size(edge_choice_vector_),
                 <<IdentityReindexer(Size(edge_choice_vector_))>>)

TouchedNodes(d, mask) ==
    {GetDAGEdge(d, e).parent : e \in mask} \cup {GetDAGEdge(d, e).child : e \in mask}

ChildEdgesIn(d, mask, n, clade) ==
    {e \in mask : GetDAGEdge(d, e).parent = n /\ GetDAGEdge(d, e).clade = clade}

HasNoChild(d, mask, n) ==
    ChildEdgesIn(d, mask, n, "Left") = {} /\ ChildEdgesIn(d, mask, n, "Right") = {}

HasBothChildren(d, mask, n) ==
    ChildEdgesIn(d, mask, n, "Left") # {} /\ ChildEdgesIn(d, mask, n, "Right") # {}

IsOutOfRange(d, id) == id # NoId /\ ~(id < EdgeIdxRangeSecond(d))

\* C8: SelectionIsValid returns false whenever some field of some record is
\* neither NoId nor below EdgeIdxRange().second (the upper bound included),
\* and whenever exactly one of parent and sister is NoId.
C8_OutOfRangeIsRejected ==
    (selection_valid # <<>>) =>
        ((\E e \in DOMAIN edge_choice_vector_ :
             \/ \E t \in AdjacentEdge :
                    IsOutOfRange(dag, GetEdgeChoice(edge_choice_vector_[e], t))
             \/ (edge_choice_vector_[e].parent_edge_id = NoId)
                    # (edge_choice_vector_[e].sister_edge_id = NoId))
         => selection_valid = <<FALSE>>)

C10_NeighborsIffSameCladesOtherSister ==
    (nni_pc = "compared") =>
        LET CladeSet(nni) == {GetSisterClade(nni), GetLeftChildClade(nni),
                              GetRightChildClade(nni)}
        IN  /\ nni_result[1] <=>
                  (/\ GetSisterClade(pre_nni) # GetSisterClade(post_nni)
                   /\ CladeSet(pre_nni) = CladeSet(post_nni))
            /\ (pre_nni = post_nni) => (nni_result = <<FALSE>>)

\* Two operations found to be neighbours whose sorted child subsplits differ.
C10_Witness ==
    /\ nni_pc = "compared"
    /\ nni_result = <<TRUE>>
    /\ GetSisterClade(pre_nni) = {0}
    /\ GetSisterClade(post_nni) = {1, 2}

(***************************************************************************)
(* Claims on the four-taxon scenario, on termination and on reindexing.    *)
(***************************************************************************)
\* The mask spans the root and every leaf of the DAG.
SpansRootAndLeaves(d, mask) ==
    /\ \E e \in mask : IsEdgeRoot(d, e)
    /\ \A t \in 0..(TaxonCount(d) - 1) : \E e \in mask : GetDAGEdge(d, e).child = t

\* The scenario: DAG 1 is the DAG of the single tree ((A,B),(C,D)), every
\* edge holds the default selection, and ExtractTreeMask has returned.
FourTaxonMaskReturned ==
    /\ dag = 1
    /\ TaxonCount(dag) = 4
    /\ FreshlyDefaultSelected
    /\ pc = "returned"

\* C11 as stated: in the 4-taxon DAG with root split ({A,B},{C,D}) and
\* children ({A},{B}) and ({C},{D}), after default selection, ExtractTreeMask
\* yields the same mask for every central edge, of size 3, spanning the root
\* and the four leaves, and TreeMaskIsValid is true of it.
C11_FourTaxonMaskOfSizeThree ==
    FourTaxonMaskReturned =>
        /\ tree_mask = EdgeIds(dag)
        /\ Cardinality(tree_mask) = 3
        /\ SpansRootAndLeaves(dag, tree_mask)
        /\ TreeMaskIsValid(dag, tree_mask)

\* C11 amended: the same with a mask of size 7, the root edge, the two edges
\* below the root split and the four leaf edges.
C11_FourTaxonMaskOfSizeSeven ==
    FourTaxonMaskReturned =>
        /\ tree_mask = EdgeIds(dag)
        /\ Cardinality(tree_mask) = 7
        /\ SpansRootAndLeaves(dag, tree_mask)
        /\ TreeMaskIsValid(dag, tree_mask)
        /\ mask_valid \in {<<>>, <<TRUE>>}

\* The mask of the scenario has been returned and found valid.
C11_Witness ==
    /\ FourTaxonMaskReturned
    /\ mask_valid = <<TRUE>>
    /\ Cardinality(tree_mask) = 7

(***************************************************************************)
(* SpecStaleRunning: SpecStale with a running ExtractTreeMask never        *)
(* suspended: the code is synchronous, so a loop that can take its next    *)
(* iteration takes it.                                                     *)
(***************************************************************************)
SpecStaleRunning ==
    /\ Init
    /\ [][NextStale]_vars
    /\ WF_vars(RootwardStep)
    /\ WF_vars(LeafwardStep)

\* ExtractTreeMask is running on a map that SelectionIsValid accepts.
RunningOnValidSelection ==
    /\ pc \in {"rootward", "leafward"}
    /\ SelectionIsValid(dag, edge_choice_vector_)

\* The pending-work stack has outgrown the lengths explored.
StackBoundReached ==
    \/ pc = "rootward" /\ Len(rootward_stack) > MaxStack
    \/ pc = "leafward" /\ Len(leafward_stack) > MaxStack

\* An iteration of the leafward loop that pops an edge already in the mask
\* and pushes the same edge back: the loop runs on with every variable as it
\* was.
LeafwardIterationRepeats ==
    /\ pc = "leafward"
    /\ leafward_stack # <<>>
    /\ Len(leafward_stack) <= MaxStack
    /\ LET edge_id == leafward_stack[Len(leafward_stack)]
           popped == SubSeq(leafward_stack, 1, Len(leafward_stack) - 1)
       IN  /\ edge_id \in DOMAIN edge_choice_vector_
           /\ edge_id \in tree_mask
           /\ leafward_stack =
                  StackPushIfValidId(
                      StackPushIfValidId(
                          popped, edge_choice_vector_[edge_id].left_child_edge_id),
                      edge_choice_vector_[edge_id].right_child_edge_id)

\* C12: ExtractTreeMask terminates for every central edge of every choice
\* map on which SelectionIsValid returns true: the rootward loop reaches a
\* root edge and the leafward worklist eventually becomes empty.  (A call
\* that ends in a failed assertion is counted as ended, and a run whose
\* stack outgrows the explored lengths is not counted against the claim;
\* neither is the loop that repeats one iteration without changing anything,
\* so that a run violating the property passes through distinct states of
\* the loop for ever.)
C12_ExtractTreeMaskTerminates ==
    RunningOnValidSelection ~>
        (pc \in {"returned", "failed"} \/ StackBoundReached \/ LeafwardIterationRepeats)

(***************************************************************************)
(* SpecReindex: a map in use grown once with a reindexer that renumbers    *)
(* the edges.                                                              *)
(***************************************************************************)
\* The reindexers explored on 0 .. size-1: the identity, every exchange of
\* two indices, the rotation by one and the reversal.
Reindexers(size) ==
    LET ids == 0..(size - 1)
    IN  {[i \in ids |-> IF i = xy[1] THEN xy[2] ELSE IF i = xy[2] THEN xy[1] ELSE i] :
             xy \in ids \X ids}
        \cup {[i \in ids |-> (i + 1) % size], [i \in ids |-> size - 1 - i]}

NextReindex ==
    \/ SelectFirstEdgeAll
    \/ pc = "idle" /\ \E edge_id \in EdgeIds(dag), edge_choice_type \in AdjacentEdge :
           \E id \in AdjacentCandidates(dag, edge_id, edge_choice_type) :
               ChooseAdjacentEdge(edge_id, edge_choice_type, id)
    \/ pc = "idle" /\
           \E new_edge_count \in
                  Size(edge_choice_vector_)..(EdgeCountWithLeafSubsplits(dag) + MaxGrow) :
               \E reindexer \in Reindexers(new_edge_count) :
                   CallGrowEdgeData(new_edge_count, <<reindexer>>)

SpecReindex == Init /\ [][NextReindex]_vars

\* A field renumbered: NoId stays NoId.
Renumbered(reindexer, id) == IF id # NoId THEN reindexer[id] ELSE NoId

\* C13: GrowEdgeData with a reindexer that is a permutation r of
\* 0 .. newEdgeCount-1 renumbers the map consistently: for every edge e that
\* existed before the call and every role, the new record at r(e) holds r of
\* the old field of e, NoId staying NoId; no index outside the new range is
\* read (no lookup fails), and the slots added by the call arrive all-NoId.
C13_ReindexRenumbersConsistently ==
    /\ pc # "grow_failed"
    /\ (pc = "grown" /\ pre_grow_vector[2].edge_reindexer # <<>>) =>
          LET before == pre_grow_vector[1]
              new_edge_count == pre_grow_vector[2].new_edge_count
              r == pre_grow_vector[2].edge_reindexer[1]
          IN  /\ DOMAIN edge_choice_vector_ = 0..(new_edge_count - 1)
              /\ {r[i] : i \in DOMAIN r} = DOMAIN r
              /\ \A e \in DOMAIN before : \A t \in AdjacentEdge :
                     /\ r[e] \in DOMAIN edge_choice_vector_
                     /\ GetEdgeChoice(edge_choice_vector_[r[e]], t)
                            = Renumbered(r, GetEdgeChoice(before[e], t))
                     /\ GetEdgeChoice(before[e], t) # NoId
                            => GetEdgeChoice(before[e], t) \in DOMAIN r
              /\ \A e \in (0..(new_edge_count - 1)) \ DOMAIN before :
                     edge_choice_vector_[r[e]] = EmptyEdgeChoice

\* A map grown by one slot and reindexed by the rotation, which moves every
\* record and renumbers every field.
C13_Witness ==
    /\ pc = "grown"
    /\ dag = 2
    /\ Len(pre_grow_vector) = 2
    /\ pre_grow_vector[2].new_edge_count = EdgeCountWithLeafSubsplits(dag) + 1
    /\ pre_grow_vector[2].edge_reindexer
           = <<[i \in 0..EdgeCountWithLeafSubsplits(dag) |->
                   (i + 1) % (EdgeCountWithLeafSubsplits(dag) + 1)]>>
    /\ edge_choice_vector_[0] = EmptyEdgeChoice
    /\ edge_choice_vector_[1].left_child_edge_id
           = pre_grow_vector[1][0].left_child_edge_id + 1

(***************************************************************************)
(* SpecTopology: ExtractTopology(tree_mask) called on any edge set that    *)
(* TreeMaskIsValid has accepted; the loop, once entered, is not suspended. *)
(***************************************************************************)
NextTopology ==
    \/ CheckTreeMask
    \/ mask_valid = <<TRUE>> /\ ExtractTopologyBegin
    \/ ExtractTopologyStep
    \/ ExtractTopologyReturn

SpecTopology ==
    /\ InitMask
    /\ [][NextTopology]_vars
    /\ WF_vars(ExtractTopologyStep)
    /\ WF_vars(ExtractTopologyReturn)

\* An object has been built for the node; the node has been joined.
IsBuilt(node_map, n) == n \in DOMAIN node_map /\ node_map[n] # Nullptr

IsJoined(node_map, n) == IsBuilt(node_map, n) /\ node_map[n].children # <<>>

\* C14: on the expanded mask of a mask that TreeMaskIsValid accepts, the
\* cursor traversal of ExtractTopology terminates with the root-split node
\* built; the state of a node only advances unvisited -> left-visited ->
\* right-visited -> joined; a node is joined only after both of its child
\* objects have been built; the cursor never steps from a node to itself;
\* and at termination exactly one object has been built for every node of
\* the expanded mask except the DAG root (nodes.size() + 1 == mask size).
C14_TopologyTraversal ==
    /\ (pc = "topology") ~> (pc = "topo_done")
    /\ [](pc # "topo_failed")
    /\ [](pc = "topo_done" =>
              /\ IsBuilt(nodes, DagRootsplitId)
              /\ DOMAIN nodes = DOMAIN tree_mask_ext \ {GetDAGRootNodeId(dag)}
              /\ \A n \in DOMAIN nodes : IsBuilt(nodes, n)
              /\ Cardinality(DOMAIN nodes) + 1 = Cardinality(DOMAIN tree_mask_ext))
    /\ [](pc = "topology" =>
              \A n \in DOMAIN tree_mask_ext :
                  /\ visited_right[n] => visited_left[n]
                  /\ IsJoined(nodes, n) => visited_right[n]
                  /\ IsBuilt(nodes, n) /\ ~IsJoined(nodes, n) => IsNodeLeaf(dag, n))
    /\ [][(pc = "topology" /\ pc' = "topology") =>
              /\ current_node_id' # current_node_id
              /\ \A n \in DOMAIN tree_mask_ext :
                     /\ visited_left[n] => visited_left'[n]
                     /\ visited_right[n] => visited_right'[n]
                     /\ IsBuilt(nodes, n) => nodes'[n] = nodes[n]
                     /\ (IsJoined(nodes', n) /\ ~IsJoined(nodes, n)) =>
                            /\ IsBuilt(nodes, tree_mask_ext[n]["LeftChild"])
                            /\ IsBuilt(nodes, tree_mask_ext[n]["RightChild"])]_vars

\* The topology of a tree of DAG 2 has been returned: seven objects built,
\* every inner node joined after its right branch.
C14_Witness ==
    /\ pc = "topo_done"
    /\ dag = 2
    /\ mask_valid = <<TRUE>>
    /\ Cardinality(DOMAIN nodes) = 7
    /\ IsJoined(nodes, DagRootsplitId)
    /\ \A n \in DOMAIN nodes : ~IsNodeLeaf(dag, n) => visited_right[n]

====
